---- MODULE Spec2Model ----
(***************************************************************************)
(* Model of the proyecto_cero retrieval-augmented pipeline:                *)
(*   rag/chunk.py    chunk_text, chunk_ingest_jsonl (segmenter)            *)
(*   rag/index.py    make_id, build_index (index writer)                   *)
(*   rag/retrieve.py _detect_where_filter, search (planner and retriever)  *)
(*   rag/generate.py build_prompt, answer_with_llm (provider dispatch)     *)
(*   api/server.py   query (the POST /query handler)                       *)
(* and of two parts of the syngenta_rag package beside it:                 *)
(*   api/api.py            query_documents (shared query engine)           *)
(*   core/a_embeddings.py  LocalEmbedding, LlamaEmbedding                  *)
(* Strings are sequences of one-character strings, so that slicing,        *)
(* trimming, substring search and lower-casing are computed, not assumed.  *)
(***************************************************************************)
EXTENDS Integers, Sequences, FiniteSets, Bags, TLC

VARIABLES
    \* chunk_text (one generator run)
    text, chunk_chars, overlap_chars, i, pc_chunk, emitted,
    \* the vector index collection (bag of entries [id, content, metadata])
    coll,
    \* build_index (one run per process, over that process's chunk file)
    chunks_file, batch_size, pos, docs, metas, ids, total, pc_index, runs,
    coll_before_rerun, upsert_failed, index_result, upserted,
    \* search (one call)
    query, top_k, ranking, where, where_document, issued, result, pc_search,
    \* answer_with_llm (one call)
    llm_provider, openai_api_key, groq_api_key, provider, calls, llm_return,
    llm_raised, pc_llm, llm_query, llm_docs, llm_metas, prompt, llm_exception,
    env_llm_provider, from_env,
    \* chunk_ingest_jsonl (one call; it iterates chunk_text per record)
    ingest_file, out_file, out_exists, consumed, idx, count, pc_ingest,
    \* make_id applied to two metadata mappings
    meta_a, meta_b, id_a, id_b, pc_id,
    \* the /query handler (one request)
    req, index_dir_exists, response, pc_query,
    \* the syngenta_rag /query handler (two requests, one shared query engine)
    engine_top_k, api_req, api_used, pc_api,
    \* the embedding classes (the same text embedded by two calls)
    emb_kind, emb_text, emb_dims, emb_seed, emb_out, pc_emb

chunkVars == <<text, chunk_chars, overlap_chars, i, pc_chunk, emitted>>
indexVars == <<chunks_file, batch_size, pos, docs, metas, ids, total, pc_index,
               runs, coll_before_rerun, upsert_failed, index_result,
                   upserted>>
searchVars == <<query, top_k, ranking, where, where_document, issued, result,
                pc_search>>
llmVars == <<llm_provider, env_llm_provider, from_env, openai_api_key,
                   groq_api_key, provider, calls,
             llm_return, llm_raised, pc_llm, llm_query, llm_docs, llm_metas,
             prompt, llm_exception, env_llm_provider, from_env>>
ingestVars == <<ingest_file, out_file, out_exists, consumed, idx, count,
                pc_ingest>>
idVars == <<meta_a, meta_b, id_a, id_b, pc_id>>
serverVars == <<req, index_dir_exists, response, pc_query>>
apiVars == <<engine_top_k, api_req, api_used, pc_api>>
embVars == <<emb_kind, emb_text, emb_dims, emb_seed, emb_out, pc_emb>>
vars == <<chunkVars, coll, indexVars, searchVars, llmVars, ingestVars, idVars,
          serverVars, apiVars, embVars>>

(***************************************************************************)
(* Bounds of the model                                                     *)
(***************************************************************************)
MaxLen == 5          \* longest text given to chunk_text
MaxChunk == 4        \* largest chunk_chars / overlap_chars tried
MaxEmit == 4         \* chunks recorded per run (a run that never ends is cut here)

Min(a, b) == IF a < b THEN a ELSE b
Max(a, b) == IF a > b THEN a ELSE b
SetMin(S) == CHOOSE x \in S : \A y \in S : x <= y
SetMax(S) == CHOOSE x \in S : \A y \in S : x >= y

(***************************************************************************)
(* Python string primitives                                                *)
(***************************************************************************)
Space == " "
\* characters removed by str.strip(); only Space is found by rfind(" ")
Whitespace == {" ", "\n"}
Chars == {" ", "\n", "a"}

\* s[a:b] for 0 <= a, b <= len(s)
Slice(s, a, b) == IF b <= a THEN << >> ELSE SubSeq(s, a + 1, b)

\* s.rfind(ch): 0-based index of the last occurrence, -1 when absent
RFind(s, ch) ==
    LET hits == {k \in 1..Len(s) : s[k] = ch}
    IN IF hits = {} THEN -1 ELSE SetMax(hits) - 1

\* s.strip()
Strip(s) ==
    LET keep == {k \in 1..Len(s) : s[k] \notin Whitespace}
    IN IF keep = {} THEN << >> ELSE SubSeq(s, SetMin(keep), SetMax(keep))

(***************************************************************************)
(* chunk_text                                                              *)
(***************************************************************************)
\* a cut is accepted only when cut > chunk_chars - EarlyCutWindow
EarlyCutWindow == 300

ParamsValidStrict(cc, oc) == ~(cc <= 0) /\ ~(oc < 0 \/ oc > cc)
\* the two guards that raise ValueError
ParamsValid(cc, oc) == ~(cc <= 0) /\ ~(oc < 0 \/ oc >= cc)

SoftEndNoOffset(cur, cut) == cut
\* end = i + cut
SoftEnd(cur, cut) == cur + cut

\* the value of `end` after the boundary search of one loop iteration
WindowEnd(t, cur, cc) ==
    LET n == Len(t)
        hard == Min(cur + cc, n)
    IN IF hard < n
       THEN LET cut == RFind(Slice(t, cur, hard), Space)
            IN IF cut # -1 /\ cut > cc - EarlyCutWindow
               THEN SoftEnd(cur, cut)
               ELSE hard
       ELSE hard

YieldAlways(chunk) == TRUE
\* `if chunk:`
ShouldYield(chunk) == chunk # << >>

NextCursorSkip(end, oc) == end + 1
\* i = max(0, end - overlap_chars)
NextCursor(end, oc) == Max(0, end - oc)

\* chunk_text touches nothing but its own locals
ChunkFrame ==
    UNCHANGED <<coll, indexVars, searchVars, llmVars, ingestVars, idVars,
                apiVars, embVars, serverVars>>

\* first next() on the generator: the parameter checks, then n, i = len, 0
ChunkStart ==
    /\ pc_chunk = "start"
    /\ IF ParamsValid(chunk_chars, overlap_chars)
       THEN pc_chunk' = "loop"
       ELSE pc_chunk' = "error"
    /\ UNCHANGED <<text, chunk_chars, overlap_chars, i, emitted>>
    /\ ChunkFrame

\* the position after one loop body whose window ended at `end`
AfterWindow(end) ==
    IF end = Len(text)
    THEN pc_chunk' = "done" /\ i' = i
    ELSE pc_chunk' = "loop" /\ i' = NextCursor(end, overlap_chars)

\* one loop iteration up to its `yield`: the chunk is handed to the consumer
\* and the generator is suspended there, i and end as they are
ChunkYield ==
    /\ pc_chunk = "loop"
    /\ i < Len(text)
    /\ Len(emitted) < MaxEmit
    /\ LET end == WindowEnd(text, i, chunk_chars)
           chunk == Strip(Slice(text, i, end))
       IN /\ ShouldYield(chunk)
          /\ emitted' = Append(emitted, [chunk |-> chunk, start |-> i, end |-> end])
    /\ pc_chunk' = "yielded"
    /\ UNCHANGED <<text, chunk_chars, overlap_chars, i>>
    /\ ChunkFrame

\* the consumer's next next(): the rest of the iteration after the `yield`
\* (end is the end_idx of the chunk just yielded)
ChunkResume ==
    /\ pc_chunk = "yielded"
    /\ AfterWindow(emitted[Len(emitted)].end)
    /\ UNCHANGED <<text, chunk_chars, overlap_chars, emitted>>
    /\ ChunkFrame

\* one loop iteration whose trimmed chunk is empty and dropped
ChunkDrop ==
    /\ pc_chunk = "loop"
    /\ i < Len(text)
    /\ LET end == WindowEnd(text, i, chunk_chars)
           chunk == Strip(Slice(text, i, end))
       IN /\ ~ShouldYield(chunk)
          /\ AfterWindow(end)
    /\ UNCHANGED <<text, chunk_chars, overlap_chars, emitted>>
    /\ ChunkFrame

\* `while i < n` is false
ChunkExit ==
    /\ pc_chunk = "loop"
    /\ ~(i < Len(text))
    /\ pc_chunk' = "done"
    /\ UNCHANGED <<text, chunk_chars, overlap_chars, i, emitted>>
    /\ ChunkFrame

ChunkNext == ChunkStart \/ ChunkYield \/ ChunkResume \/ ChunkDrop \/ ChunkExit

Texts == UNION {[1..n -> Chars] : n \in 0..MaxLen}

ChunkIdle ==
    /\ text = << >> /\ chunk_chars = 1 /\ overlap_chars = 0
    /\ i = 0 /\ pc_chunk = "idle" /\ emitted = << >>

IndexIdle ==
    /\ chunks_file = <<<< >>, << >>>> /\ batch_size = <<1, 1>>
    /\ pos = <<0, 0>> /\ total = <<0, 0>> /\ runs = <<0, 0>>
    /\ docs = <<<< >>, << >>>> /\ metas = <<<< >>, << >>>>
    /\ ids = <<<< >>, << >>>> /\ pc_index = <<"off", "off">>
    /\ coll_before_rerun = EmptyBag
    /\ upsert_failed = <<FALSE, FALSE>> /\ index_result = <<<< >>, << >>>>
    /\ upserted = <<<< >>, << >>>>

SearchIdle ==
    /\ query = << >> /\ top_k = 1 /\ ranking = << >>
    /\ where = << >> /\ where_document = << >>
    /\ issued = << >> /\ result = << >> /\ pc_search = "idle"

LLMIdle ==
    /\ llm_provider = << >> /\ openai_api_key = FALSE /\ groq_api_key = FALSE
    /\ provider = << >> /\ calls = << >> /\ llm_return = << >>
    /\ llm_raised = << >> /\ pc_llm = "idle"
    /\ llm_query = << >> /\ llm_docs = << >> /\ llm_metas = << >>
    /\ prompt = << >> /\ llm_exception = << >>
    /\ env_llm_provider = << >> /\ from_env = FALSE

IngestIdle ==
    /\ ingest_file = << >> /\ out_file = << >> /\ out_exists = FALSE
    /\ consumed = 0 /\ idx = 0 /\ count = 0 /\ pc_ingest = "idle"

IdIdle ==
    /\ meta_a = << >> /\ meta_b = << >> /\ id_a = << >> /\ id_b = << >>
    /\ pc_id = "idle"

ApiIdle ==
    /\ engine_top_k = << >> /\ api_req = << >>
    /\ api_used = <<<< >>, << >>>> /\ pc_api = <<"off", "off">>

EmbedIdle ==
    /\ emb_kind = "none" /\ emb_text = << >> /\ emb_dims = 0
    /\ emb_seed = <<0, 0>> /\ emb_out = <<<< >>, << >>>>
    /\ pc_emb = <<"off", "off">>

ServerIdle ==
    /\ req = << >> /\ index_dir_exists = TRUE /\ response = << >>
    /\ pc_query = "idle"

\* texts a little longer than EarlyCutWindow, blank at some of the marked
\* positions: with chunk_chars just above EarlyCutWindow a blank near the
\* start of the window is an early cut (refused), one further on is accepted
LongMarks == {1, 2, 3, EarlyCutWindow + 1, EarlyCutWindow + 2, EarlyCutWindow + 3}
LongTexts ==
    {[k \in 1..(EarlyCutWindow + 3) |-> IF k \in S THEN " " ELSE "a"] :
        S \in SUBSET LongMarks}

\* chunk_text called on any text with any (chunk_chars, overlap_chars)
ChunkInit ==
    /\ \/ /\ text \in Texts
          /\ chunk_chars \in -1..MaxChunk
          /\ overlap_chars \in -1..MaxChunk
       \/ /\ text \in LongTexts
          /\ chunk_chars \in {EarlyCutWindow + 1, EarlyCutWindow + 2}
          /\ overlap_chars \in {0, 1, EarlyCutWindow}
    /\ i = 0 /\ pc_chunk = "start" /\ emitted = << >>
    /\ coll = EmptyBag
    /\ IndexIdle /\ SearchIdle /\ LLMIdle
    /\ IngestIdle /\ IdIdle /\ ApiIdle /\ EmbedIdle /\ ServerIdle

SpecChunk == ChunkInit /\ [][ChunkNext]_vars

(***************************************************************************)
(* make_id and build_index                                                 *)
(***************************************************************************)
MaxFileLen == 2      \* records per chunk file
MaxBatch == 2        \* largest batch_size tried

Procs == {1, 2}      \* two build_index runs sharing one collection

Digits == <<"0", "1", "2", "3", "4", "5", "6", "7", "8", "9">>

RECURSIVE NatStr(_)
\* str(n) for an int n >= 0, as the f-string renders it
NatStr(n) ==
    IF n < 10 THEN <<Digits[n + 1]>>
    ELSE NatStr(n \div 10) \o <<Digits[(n % 10) + 1]>>

\* meta.get(field, '') rendered by the f-string
MetaStr(meta, field) ==
    IF field \notin DOMAIN meta THEN << >>
    ELSE IF field = "filename" THEN meta[field]
    ELSE NatStr(meta[field])

\* hashlib.md5(key).hexdigest(): taken as collision-free, the digest stands
\* for the key it was computed from
Md5(key) == [md5 |-> key]

MakeIdNoFilename(meta) ==
    Md5(<<"|", "p">> \o MetaStr(meta, "page")
        \o <<"|", "c">> \o MetaStr(meta, "chunk_index")
        \o <<"|">> \o MetaStr(meta, "start_char")
        \o <<"|">> \o MetaStr(meta, "end_char"))
MakeIdNoSeparator(meta) ==
    Md5(MetaStr(meta, "filename")
        \o <<"p">> \o MetaStr(meta, "page")
        \o <<"c">> \o MetaStr(meta, "chunk_index")
        \o MetaStr(meta, "start_char")
        \o MetaStr(meta, "end_char"))
\* make_id(meta)
MakeId(meta) ==
    Md5(MetaStr(meta, "filename")
        \o <<"|", "p">> \o MetaStr(meta, "page")
        \o <<"|", "c">> \o MetaStr(meta, "chunk_index")
        \o <<"|">> \o MetaStr(meta, "start_char")
        \o <<"|">> \o MetaStr(meta, "end_char"))

\* the collection without the entries stored under id
RemoveId(c, id) == [e \in {x \in DOMAIN c : x.id # id} |-> c[e]]

AddOne(c, e) == c (+) SetToBag({e})
\* upsert of one entry: an existing id is replaced, a new id is inserted
UpsertOne(c, e) == RemoveId(c, e.id) (+) SetToBag({e})

RECURSIVE UpsertFrom(_, _, _, _, _)
UpsertFrom(c, k, idl, docl, metal) ==
    IF k > Len(idl) THEN c
    ELSE UpsertFrom(UpsertOne(c, [id |-> idl[k], content |-> docl[k],
                                  metadata |-> metal[k]]),
                    k + 1, idl, docl, metal)

\* coll.upsert(documents=docs, metadatas=metas, ids=ids)
Upsert(c, idl, docl, metal) == UpsertFrom(c, 1, idl, docl, metal)

\* build_index touches the collection and its own locals
IndexFrame ==
    UNCHANGED <<chunkVars, searchVars, llmVars, ingestVars, idVars,
                apiVars, embVars, serverVars>>

BatchFullLate(n, size) == n > size
\* `if len(docs) >= batch_size`: the batch of n chunks is flushed
BatchFull(n, size) == n >= size

AllDone == \A q \in Procs : pc_index[q] = "done"

\* entry of build_index: docs, metas, ids = [], [], []; total = 0.
\* A second run of a process starts only when no run is in progress.
BuildStart(p) ==
    /\ \/ pc_index[p] = "idle" /\ coll_before_rerun' = coll_before_rerun
       \/ AllDone /\ runs[p] = 1 /\ coll_before_rerun' = coll
    /\ pc_index' = [pc_index EXCEPT ![p] = "loop"]
    /\ pos' = [pos EXCEPT ![p] = 0]
    /\ docs' = [docs EXCEPT ![p] = << >>]
    /\ metas' = [metas EXCEPT ![p] = << >>]
    /\ ids' = [ids EXCEPT ![p] = << >>]
    /\ total' = [total EXCEPT ![p] = 0]
    /\ index_result' = [index_result EXCEPT ![p] = << >>]
    /\ upserted' = [upserted EXCEPT ![p] = << >>]
    /\ UNCHANGED <<coll, chunks_file, batch_size, runs, upsert_failed>>
    /\ IndexFrame

\* a record with empty trimmed content: `continue`
BuildSkip(p) ==
    /\ pc_index[p] = "loop"
    /\ pos[p] < Len(chunks_file[p])
    /\ Strip(chunks_file[p][pos[p] + 1].content) = << >>
    /\ pos' = [pos EXCEPT ![p] = @ + 1]
    /\ UNCHANGED <<coll, chunks_file, batch_size, docs, metas, ids, total,
                   pc_index, runs, coll_before_rerun, upsert_failed,
                   index_result, upserted>>
    /\ IndexFrame

\* a record appended to the batch, the batch not yet full
BuildAppend(p) ==
    /\ pc_index[p] = "loop"
    /\ pos[p] < Len(chunks_file[p])
    /\ LET rec == chunks_file[p][pos[p] + 1]
           content == Strip(rec.content)
       IN /\ content # << >>
          /\ ~BatchFull(Len(docs[p]) + 1, batch_size[p])
          /\ docs' = [docs EXCEPT ![p] = Append(@, content)]
          /\ metas' = [metas EXCEPT ![p] = Append(@, rec.metadata)]
          /\ ids' = [ids EXCEPT ![p] = Append(@, MakeId(rec.metadata))]
    /\ pos' = [pos EXCEPT ![p] = @ + 1]
    /\ UNCHANGED <<coll, chunks_file, batch_size, total, pc_index, runs,
                   coll_before_rerun, upsert_failed, index_result, upserted>>
    /\ IndexFrame

\* a record appended to the batch, which is full and flushed
BuildAppendFlush(p) ==
    /\ pc_index[p] = "loop"
    /\ pos[p] < Len(chunks_file[p])
    /\ LET rec == chunks_file[p][pos[p] + 1]
           content == Strip(rec.content)
           docl == Append(docs[p], content)
           metal == Append(metas[p], rec.metadata)
           idl == Append(ids[p], MakeId(rec.metadata))
       IN /\ content # << >>
          /\ BatchFull(Len(docl), batch_size[p])
          /\ coll' = Upsert(coll, idl, docl, metal)
          /\ upserted' = [upserted EXCEPT
                              ![p] = Append(@, [ids |-> idl, documents |-> docl])]
          /\ total' = [total EXCEPT ![p] = @ + Len(docl)]
    /\ docs' = [docs EXCEPT ![p] = << >>]
    /\ metas' = [metas EXCEPT ![p] = << >>]
    /\ ids' = [ids EXCEPT ![p] = << >>]
    /\ pos' = [pos EXCEPT ![p] = @ + 1]
    /\ UNCHANGED <<chunks_file, batch_size, pc_index, runs, coll_before_rerun,
                   upsert_failed, index_result>>
    /\ IndexFrame

\* end of the file: the final flush_batch(), then return (total, collection)
BuildFinish(p) ==
    /\ pc_index[p] = "loop"
    /\ pos[p] = Len(chunks_file[p])
    /\ IF docs[p] = << >>
       THEN UNCHANGED <<coll, total, upserted>>
       ELSE /\ coll' = Upsert(coll, ids[p], docs[p], metas[p])
            /\ upserted' = [upserted EXCEPT
                                ![p] = Append(@, [ids |-> ids[p],
                                                  documents |-> docs[p]])]
            /\ total' = [total EXCEPT ![p] = @ + Len(docs[p])]
    /\ docs' = [docs EXCEPT ![p] = << >>]
    /\ metas' = [metas EXCEPT ![p] = << >>]
    /\ ids' = [ids EXCEPT ![p] = << >>]
    /\ pc_index' = [pc_index EXCEPT ![p] = "done"]
    /\ runs' = [runs EXCEPT ![p] = @ + 1]
    /\ index_result' = [index_result EXCEPT
                            ![p] = [raised |-> FALSE, value |-> <<total'[p]>>]]
    /\ UNCHANGED <<chunks_file, batch_size, pos, coll_before_rerun, upsert_failed>>
    /\ IndexFrame

UpsertErrorSwallowed == "loop"
\* where build_index is after coll.upsert raised: no try/except around it,
\* the exception leaves flush_batch and build_index
UpsertError == "failed"

\* coll.upsert raises, in the flush of a full batch or in the final flush;
\* the failed call writes nothing, and the caller gets the exception alone
\* (the local `total` is gone with the frame)
BuildUpsertFails(p) ==
    /\ pc_index[p] = "loop"
    /\ \/ /\ pos[p] < Len(chunks_file[p])
          /\ LET rec == chunks_file[p][pos[p] + 1]
                 content == Strip(rec.content)
             IN /\ content # << >>
                /\ BatchFull(Len(docs[p]) + 1, batch_size[p])
                /\ docs' = [docs EXCEPT ![p] = Append(@, content)]
                /\ metas' = [metas EXCEPT ![p] = Append(@, rec.metadata)]
                /\ ids' = [ids EXCEPT ![p] = Append(@, MakeId(rec.metadata))]
          /\ pos' = [pos EXCEPT ![p] = @ + 1]
       \/ /\ pos[p] = Len(chunks_file[p])
          /\ docs[p] # << >>
          /\ UNCHANGED <<docs, metas, ids, pos>>
    /\ upsert_failed' = [upsert_failed EXCEPT ![p] = TRUE]
    /\ pc_index' = [pc_index EXCEPT ![p] = UpsertError]
    /\ index_result' = [index_result EXCEPT
                            ![p] = [raised |-> TRUE, value |-> << >>]]
    /\ UNCHANGED <<coll, chunks_file, batch_size, total, runs,
                   coll_before_rerun, upserted>>
    /\ IndexFrame

IndexNext ==
    \E p \in Procs :
        \/ BuildStart(p)
        \/ BuildSkip(p)
        \/ BuildAppend(p)
        \/ BuildAppendFlush(p)
        \/ BuildFinish(p)
        \/ BuildUpsertFails(p)

FileA == <<"a", ".", "p", "d", "f">>
FileB == <<"b", ".", "p", "d", "f">>

ChunkMeta(fn, ci) ==
    [filename |-> fn, page |-> 1, chunk_index |-> ci, start_char |-> 0,
     end_char |-> 12]

\* chunk records of document a.pdf (two of them under the same id, one blank)
RecsA ==
    {[content |-> <<"x">>, metadata |-> ChunkMeta(FileA, 0)],
     [content |-> <<"y", " ">>, metadata |-> ChunkMeta(FileA, 0)],
     [content |-> <<"x">>, metadata |-> ChunkMeta(FileA, 1)],
     [content |-> <<" ">>, metadata |-> ChunkMeta(FileA, 1)]}
\* chunk records of document b.pdf
RecsB ==
    {[content |-> <<"x">>, metadata |-> ChunkMeta(FileB, 0)],
     [content |-> <<"y">>, metadata |-> ChunkMeta(FileB, 0)]}

FilesOf(R) == UNION {[1..n -> R] : n \in 0..MaxFileLen}

\* two chunk files of documents with distinct filenames, an empty collection
IndexInit ==
    /\ chunks_file \in [Procs -> FilesOf(RecsA) \cup FilesOf(RecsB)]
    /\ chunks_file[1] \in FilesOf(RecsA)
    /\ chunks_file[2] \in FilesOf(RecsB)
    /\ batch_size \in [Procs -> 1..MaxBatch]
    /\ pos = [p \in Procs |-> 0]
    /\ docs = [p \in Procs |-> << >>]
    /\ metas = [p \in Procs |-> << >>]
    /\ ids = [p \in Procs |-> << >>]
    /\ total = [p \in Procs |-> 0]
    /\ pc_index = [p \in Procs |-> "idle"]
    /\ runs = [p \in Procs |-> 0]
    /\ coll = EmptyBag
    /\ coll_before_rerun = EmptyBag
    /\ upsert_failed = [p \in Procs |-> FALSE]
    /\ index_result = [p \in Procs |-> << >>]
    /\ upserted = [p \in Procs |-> << >>]
    /\ ChunkIdle /\ SearchIdle /\ LLMIdle
    /\ IngestIdle /\ IdIdle /\ ApiIdle /\ EmbedIdle /\ ServerIdle

SpecIndex == IndexInit /\ [][IndexNext]_vars

(***************************************************************************)
(* Claims about build_index                                                *)
(***************************************************************************)

\* C5: a second run of build_index on the unchanged chunk file leaves the
\* index as the first run left it: same entries under the same ids, and no
\* id stored twice.
C5_RerunIsNoOp ==
    (AllDone /\ \E p \in Procs : runs[p] = 2) =>
        /\ coll = coll_before_rerun
        /\ \A e \in DOMAIN coll : coll[e] = 1
        /\ \A e1, e2 \in DOMAIN coll : e1.id = e2.id => e1 = e2

\* a second run has finished over a file that the first run indexed
C5_Witness ==
    /\ AllDone /\ runs[1] = 2
    /\ Len(chunks_file[1]) = MaxFileLen
    /\ total[1] = MaxFileLen
    /\ BagCardinality(coll) >= 1

RECURSIVE IngestFrom(_, _, _)
\* the index after one uninterrupted pass over a chunk file
IngestFrom(c, file, k) ==
    IF k > Len(file) THEN c
    ELSE IF Strip(file[k].content) = << >> THEN IngestFrom(c, file, k + 1)
    ELSE IngestFrom(UpsertOne(c, [id |-> MakeId(file[k].metadata),
                                  content |-> Strip(file[k].content),
                                  metadata |-> file[k].metadata]),
                    file, k + 1)

\* C6: whatever the interleaving of the two runs, once both have finished the
\* index equals the one built by ingesting the two documents one after the
\* other, in either order.
C6_ParallelIngestOrderIndependent ==
    AllDone =>
        /\ coll = IngestFrom(IngestFrom(EmptyBag, chunks_file[1], 1), chunks_file[2], 1)
        /\ coll = IngestFrom(IngestFrom(EmptyBag, chunks_file[2], 1), chunks_file[1], 1)

\* both runs have finished and each put an entry into the index
C6_Witness ==
    /\ AllDone /\ runs[1] = 1 /\ runs[2] = 1
    /\ total[1] >= 2 /\ total[2] >= 1
    /\ \E e1, e2 \in DOMAIN coll :
           e1.metadata.filename = FileA /\ e2.metadata.filename = FileB

\* the ids of the first total[p] records with content in p's chunk file all
\* have an entry in the collection
WrittenPresent(p) ==
    LET file == chunks_file[p]
        HasContent(j) == Strip(file[j].content) # << >>
        written == {j \in 1..Len(file) :
                       /\ HasContent(j)
                       /\ Cardinality({h \in 1..j : HasContent(h)}) <= total[p]}
    IN \A j \in written :
           \E e \in DOMAIN coll : e.id = MakeId(file[j].metadata)

\* C13: once an upsert of a run has failed, the run has ended with the
\* exception raised to its caller; the failing step removes nothing from the
\* index, the chunks of the batches written before it stay in the index, and
\* the run reads no further record and writes no further batch.
C13_UpsertFailurePropagates ==
    [][\A p \in Procs :
          upsert_failed'[p] =>
              /\ pc_index'[p] = "failed"
              /\ index_result'[p] = [raised |-> TRUE, value |-> << >>]
              /\ WrittenPresent(p)'
              /\ ~upsert_failed[p] => coll' = coll
              /\ upsert_failed[p] =>
                     /\ pos'[p] = pos[p] /\ total'[p] = total[p]
                     /\ docs'[p] = docs[p]]_vars

\* a run failed in its second batch, the first one being in the index
C13_Witness ==
    /\ upsert_failed[1] /\ total[1] = 1 /\ pos[1] = 2
    /\ \E e \in DOMAIN coll : e.id = MakeId(chunks_file[1][1].metadata)
    /\ pc_index[2] = "done" /\ total[2] >= 1

\* C14: when an upsert of a run has failed, what the caller receives holds
\* the count of chunks the run wrote to the index before the failure.
C14_FailureCarriesCount ==
    \A p \in Procs :
        upsert_failed[p] => index_result[p].value = <<total[p]>>

RECURSIVE Flatten(_)
\* the chunks of a sequence of batches, in the order sent
Flatten(bs) ==
    IF bs = << >> THEN [ids |-> << >>, documents |-> << >>]
    ELSE LET rest == Flatten(Tail(bs))
         IN [ids |-> Head(bs).ids \o rest.ids,
             documents |-> Head(bs).documents \o rest.documents]

\* the records of file with non-empty trimmed content, in file order
WithContent(file) == SelectSeq(file, LAMBDA r : Strip(r.content) # << >>)

\* C27: the batches a run has upserted hold, in input order and once each,
\* the chunks with non-empty trimmed content read so far that are not waiting
\* in the open batch; no batch is empty or larger than batch_size, every
\* batch but the last of a run that returned has exactly batch_size chunks;
\* a run that returned has upserted every such chunk of its file and returns
\* their number.
C27_BatchesCoverInputOnce ==
    \A p \in Procs :
        pc_index[p] \in {"loop", "done", "failed"} =>
            LET sent == Flatten(upserted[p])
                recs == WithContent(chunks_file[p])
                n == Len(sent.ids)
                nb == Len(upserted[p])
            IN /\ n = total[p] /\ n <= Len(recs)
               /\ Len(sent.documents) = n
               /\ \A j \in 1..n :
                      /\ sent.ids[j] = MakeId(recs[j].metadata)
                      /\ sent.documents[j] = Strip(recs[j].content)
               /\ \A b \in 1..nb :
                      /\ Len(upserted[p][b].ids) \in 1..batch_size[p]
                      /\ Len(upserted[p][b].documents) = Len(upserted[p][b].ids)
                      /\ (b < nb \/ pc_index[p] # "done") =>
                             Len(upserted[p][b].ids) = batch_size[p]
               /\ pc_index[p] = "done" =>
                      /\ n = Len(recs)
                      /\ index_result[p] = [raised |-> FALSE, value |-> <<n>>]

\* one run with batch_size 2 skipped a blank record and returned 1 after a
\* single, short batch; the other with batch_size 1 returned 2 after two
\* batches
C27_Witness ==
    /\ AllDone /\ runs = <<1, 1>>
    /\ batch_size[1] = 2 /\ Len(chunks_file[1]) = 2
    /\ Len(upserted[1]) = 1 /\ Len(upserted[1][1].ids) = 1
    /\ index_result[1].value = <<1>>
    /\ batch_size[2] = 1 /\ Len(upserted[2]) = 2
    /\ index_result[2].value = <<2>>

(***************************************************************************)
(* Re-ingestion: build_index over the chunk file of a document, then over  *)
(* the chunk file of a later version of the same document                  *)
(***************************************************************************)

\* the first build has returned: the build over the new chunk file may start
ReingestNewVersion ==
    /\ pc_index[1] = "done" /\ pc_index[2] = "queued"
    /\ pc_index' = [pc_index EXCEPT ![2] = "idle"]
    /\ UNCHANGED <<coll, chunks_file, batch_size, pos, docs, metas, ids, total,
                   runs, coll_before_rerun, upsert_failed, index_result,
                   upserted>>
    /\ IndexFrame

ReingestNext == IndexNext \/ ReingestNewVersion

\* chunks.jsonl of a.pdf as first segmented (run 1) and as segmented again
\* after the document or the chunk parameters changed (run 2)
ReingestInit ==
    /\ chunks_file \in [Procs -> FilesOf(RecsA)]
    /\ batch_size \in [Procs -> 1..MaxBatch]
    /\ pos = [p \in Procs |-> 0]
    /\ docs = [p \in Procs |-> << >>]
    /\ metas = [p \in Procs |-> << >>]
    /\ ids = [p \in Procs |-> << >>]
    /\ total = [p \in Procs |-> 0]
    /\ pc_index = <<"idle", "queued">>
    /\ runs = [p \in Procs |-> 0]
    /\ coll = EmptyBag
    /\ coll_before_rerun = EmptyBag
    /\ upsert_failed = [p \in Procs |-> FALSE]
    /\ index_result = [p \in Procs |-> << >>]
    /\ upserted = [p \in Procs |-> << >>]
    /\ ChunkIdle /\ SearchIdle /\ LLMIdle
    /\ IngestIdle /\ IdIdle /\ ApiIdle /\ EmbedIdle /\ ServerIdle

SpecReingest == ReingestInit /\ [][ReingestNext]_vars

\* C22: once the build over the new version's chunk file has completed, the
\* index holds for the document exactly the chunks of that file and none that
\* only the earlier version produced.
C22_ReingestionSupersedes ==
    (AllDone /\ runs = <<1, 1>>) =>
        coll = IngestFrom(EmptyBag, chunks_file[2], 1)

(***************************************************************************)
(* make_id called on two metadata mappings, each in its own process        *)
(***************************************************************************)
IdFrame ==
    UNCHANGED <<coll, chunkVars, indexVars, searchVars, llmVars, ingestVars,
                serverVars, apiVars, embVars>>

\* one process calls make_id(meta_a)
IdCallA ==
    /\ pc_id \in {"start", "called"}
    /\ id_a = << >>
    /\ id_a' = <<MakeId(meta_a)>>
    /\ pc_id' = IF id_b = << >> THEN "called" ELSE "done"
    /\ UNCHANGED <<meta_a, meta_b, id_b>>
    /\ IdFrame

\* another process calls make_id(meta_b)
IdCallB ==
    /\ pc_id \in {"start", "called"}
    /\ id_b = << >>
    /\ id_b' = <<MakeId(meta_b)>>
    /\ pc_id' = IF id_a = << >> THEN "called" ELSE "done"
    /\ UNCHANGED <<meta_a, meta_b, id_a>>
    /\ IdFrame

IdNext == IdCallA \/ IdCallB

\* the five fields make_id reads
KeyFields == {"filename", "page", "chunk_index", "start_char", "end_char"}

\* chunk metadata as the pipeline writes it: a file name (which may itself
\* hold the separator), four integers, further fields make_id does not read;
\* and the same with one of the fields absent
IdMetas ==
    {[k \in D |-> m[k]] :
        m \in [filename : {<<"a">>, <<"a", "|", "p", "1">>},
               page : {1, 11}, chunk_index : {1, 11},
               start_char : {0, 10}, end_char : {1, 10},
               n_pages : {1, 11}],
        D \in {KeyFields \cup {"n_pages"},
               {"page", "chunk_index", "start_char", "end_char", "n_pages"},
               {"filename", "chunk_index", "start_char", "end_char", "n_pages"},
               {"filename", "page", "chunk_index", "start_char", "n_pages"}}}

IdInit ==
    /\ meta_a \in IdMetas /\ meta_b \in IdMetas
    /\ id_a = << >> /\ id_b = << >>
    /\ pc_id = "start"
    /\ coll = EmptyBag
    /\ ChunkIdle /\ IndexIdle /\ SearchIdle /\ LLMIdle /\ IngestIdle /\ ServerIdle
    /\ ApiIdle /\ EmbedIdle

SpecId == IdInit /\ [][IdNext]_vars

\* the value of each of the five fields, or its absence
KeyTuple(meta) ==
    [f \in KeyFields |-> IF f \in DOMAIN meta THEN <<meta[f]>> ELSE << >>]

\* C12: make_id is a function of (filename, page, chunk_index, start_char,
\* end_char) alone: two mappings with equal tuples get equal ids, in whichever
\* process and whatever their other fields, and two mappings that differ in
\* any of the five fields get different ids.
C12_IdIsInjectiveFunctionOfKey ==
    pc_id = "done" => ((id_a = id_b) <=> (KeyTuple(meta_a) = KeyTuple(meta_b)))

\* both ids computed for two mappings that differ in exactly one key field
C12_Witness ==
    /\ pc_id = "done"
    /\ Cardinality({f \in KeyFields : KeyTuple(meta_a)[f] # KeyTuple(meta_b)[f]}) = 1
    /\ id_a # id_b

(***************************************************************************)
(* chunk_ingest_jsonl                                                      *)
(***************************************************************************)
MaxRecords == 2      \* records in ingest.jsonl

\* {**meta, **extra}
Merge(meta, extra) ==
    [k \in DOMAIN meta \cup DOMAIN extra |->
        IF k \in DOMAIN extra THEN extra[k] ELSE meta[k]]

ChunkLineOneBased(meta, e, k) ==
    [content |-> e.chunk,
     metadata |-> Merge(meta, [chunk_index |-> k + 1,
                               start_char |-> e.start,
                               end_char |-> e.end,
                               chunk_chars |-> chunk_chars,
                               overlap_chars |-> overlap_chars])]
\* obj = {"content": chunk, "metadata": chunk_meta} for the chunk e yielded
\* when idx is k
ChunkLine(meta, e, k) ==
    [content |-> e.chunk,
     metadata |-> Merge(meta, [chunk_index |-> k,
                               start_char |-> e.start,
                               end_char |-> e.end,
                               chunk_chars |-> chunk_chars,
                               overlap_chars |-> overlap_chars])]

\* chunk_ingest_jsonl touches the output file, its locals and the generator
IngestFrame == UNCHANGED <<coll, indexVars, searchVars, llmVars, idVars,
                apiVars, embVars, serverVars>>

\* mkdir, count = 0, out_path.open("w"): the file is created or truncated
IngestOpen ==
    /\ pc_ingest = "start"
    /\ out_exists' = TRUE /\ out_file' = << >>
    /\ count' = 0
    /\ pc_ingest' = "read"
    /\ UNCHANGED <<ingest_file, consumed, idx, chunkVars>>
    /\ IngestFrame

\* a record whose trimmed content is empty: `continue`
IngestSkipRecord ==
    /\ pc_ingest = "read"
    /\ consumed < Len(ingest_file)
    /\ Strip(ingest_file[consumed + 1].content) = << >>
    /\ consumed' = consumed + 1
    /\ UNCHANGED <<ingest_file, out_file, out_exists, idx, count, pc_ingest,
                   chunkVars>>
    /\ IngestFrame

\* a record with content: idx = 0 and the generator chunk_text(content, ...)
\* is created (none of its code has run yet)
IngestStartRecord ==
    /\ pc_ingest = "read"
    /\ consumed < Len(ingest_file)
    /\ Strip(ingest_file[consumed + 1].content) # << >>
    /\ consumed' = consumed + 1
    /\ idx' = 0
    /\ text' = Strip(ingest_file[consumed + 1].content)
    /\ i' = 0 /\ emitted' = << >> /\ pc_chunk' = "start"
    /\ pc_ingest' = "chunking"
    /\ UNCHANGED <<ingest_file, out_file, out_exists, count, chunk_chars,
                   overlap_chars>>
    /\ IngestFrame

\* the for loop asks the generator for its next chunk
IngestAdvance ==
    /\ pc_ingest = "chunking"
    /\ idx = Len(emitted)
    /\ ChunkNext

\* the loop body for the chunk just yielded: count += 1, one line written
IngestWrite ==
    /\ pc_ingest = "chunking"
    /\ idx < Len(emitted)
    /\ out_file' = Append(out_file,
                          ChunkLine(ingest_file[consumed].metadata,
                                    emitted[idx + 1], idx))
    /\ count' = count + 1
    /\ idx' = idx + 1
    /\ UNCHANGED <<ingest_file, out_exists, consumed, pc_ingest, chunkVars>>
    /\ IngestFrame

\* the generator is exhausted: on to the next record
IngestRecordDone ==
    /\ pc_ingest = "chunking"
    /\ pc_chunk = "done" /\ idx = Len(emitted)
    /\ pc_ingest' = "read"
    /\ UNCHANGED <<ingest_file, out_file, out_exists, consumed, idx, count,
                   chunkVars>>
    /\ IngestFrame

\* the generator raised ValueError: it leaves chunk_ingest_jsonl
IngestRaise ==
    /\ pc_ingest = "chunking"
    /\ pc_chunk = "error"
    /\ pc_ingest' = "raised"
    /\ UNCHANGED <<ingest_file, out_file, out_exists, consumed, idx, count,
                   chunkVars>>
    /\ IngestFrame

\* no record left: return count
IngestReturn ==
    /\ pc_ingest = "read"
    /\ consumed = Len(ingest_file)
    /\ pc_ingest' = "returned"
    /\ UNCHANGED <<ingest_file, out_file, out_exists, consumed, idx, count,
                   chunkVars>>
    /\ IngestFrame

IngestNext ==
    \/ IngestOpen
    \/ IngestSkipRecord
    \/ IngestStartRecord
    \/ IngestAdvance
    \/ IngestWrite
    \/ IngestRecordDone
    \/ IngestRaise
    \/ IngestReturn

\* page texts of ingest.jsonl
IngestContents ==
    {<< >>, <<" ">>, <<"a", "a", "a">>, <<"a", " ", " ", "a", " ">>}

\* ingest.jsonl: one record per page of a.pdf
IngestFiles ==
    UNION {{[k \in 1..n |-> [content |-> c[k],
                             metadata |-> [filename |-> FileA, page |-> k]]] :
               c \in [1..n -> IngestContents]} : n \in 0..MaxRecords}

\* the chunk file left by an earlier run
OldChunks == <<[content |-> <<"o", "l", "d">>, metadata |-> ChunkMeta(FileA, 0)]>>

\* chunk_ingest_jsonl called on any small ingest file with any parameters,
\* the output file absent or left by an earlier run
IngestInit ==
    /\ ingest_file \in IngestFiles
    /\ chunk_chars \in 0..MaxChunk
    /\ overlap_chars \in 0..MaxChunk
    /\ out_exists \in BOOLEAN
    /\ out_file = IF out_exists THEN OldChunks ELSE << >>
    /\ consumed = 0 /\ idx = 0 /\ count = 0 /\ pc_ingest = "start"
    /\ text = << >> /\ i = 0 /\ pc_chunk = "idle" /\ emitted = << >>
    /\ coll = EmptyBag
    /\ IndexIdle /\ SearchIdle /\ LLMIdle /\ IdIdle /\ ApiIdle /\ EmbedIdle /\ ServerIdle

SpecIngest == IngestInit /\ [][IngestNext]_vars

(***************************************************************************)
(* Claims about chunk_ingest_jsonl                                         *)
(***************************************************************************)

\* C11: with invalid parameters chunk_ingest_jsonl raises the error before
\* the output file is created or truncated and before any input record is
\* consumed, whatever the input file holds.
C11_InvalidParamsFailFast ==
    (pc_ingest # "start" /\
     (chunk_chars <= 0 \/ overlap_chars < 0 \/ overlap_chars >= chunk_chars))
        => /\ pc_ingest = "raised"
           /\ ~out_exists \/ out_file = OldChunks
           /\ consumed = 0

\* C26: the chunk lines written for one record carry chunk_index 0, 1, 2,
\* ... in the order written, none skipped or repeated; an empty chunk is not
\* written and takes no index; every record starts again at 0; a record with
\* empty trimmed content has no line; the lines follow the order of the
\* records; and count (the value returned) is the number of lines written.
C26_ChunkIndexSequentialPerRecord ==
    pc_ingest \in {"read", "chunking", "raised", "returned"} =>
        /\ count = Len(out_file)
        /\ \A j \in 1..Len(out_file) :
               LET m == out_file[j].metadata
               IN /\ m.chunk_index =
                         Cardinality({h \in 1..(j - 1) :
                                         out_file[h].metadata.page = m.page})
                  /\ out_file[j].content # << >>
                  /\ m.page <= consumed
                  /\ Strip(ingest_file[m.page].content) # << >>
                  /\ j > 1 => out_file[j - 1].metadata.page <= m.page

\* a call returned after writing two records' chunks, an empty window having
\* been dropped between the two chunks of the first record
C26_Witness ==
    /\ pc_ingest = "returned" /\ count = 4 /\ Len(out_file) = 4
    /\ out_file[1].metadata.page = 1 /\ out_file[1].metadata.chunk_index = 0
    /\ out_file[2].metadata.page = 1 /\ out_file[2].metadata.chunk_index = 1
    /\ out_file[2].metadata.start_char > out_file[1].metadata.end_char
    /\ out_file[3].metadata.page = 2 /\ out_file[3].metadata.chunk_index = 0

(***************************************************************************)
(* _detect_where_filter and search                                         *)
(***************************************************************************)
MaxIndexDocs == 3    \* entries in the collection that search queries
MaxTopK == 2         \* largest top_k tried

UpperCase ==
    <<"A", "B", "C", "D", "E", "F", "G", "H", "I", "J", "K", "L", "M", "N",
      "O", "P", "Q", "R", "S", "T", "U", "V", "W", "X", "Y", "Z">>
LowerCase ==
    <<"a", "b", "c", "d", "e", "f", "g", "h", "i", "j", "k", "l", "m", "n",
      "o", "p", "q", "r", "s", "t", "u", "v", "w", "x", "y", "z">>

\* one character of str.lower()
LowerChar(c) ==
    IF \E k \in 1..Len(UpperCase) : UpperCase[k] = c
    THEN LowerCase[CHOOSE k \in 1..Len(UpperCase) : UpperCase[k] = c]
    ELSE c

\* s.lower()
Lower(s) == [k \in 1..Len(s) |-> LowerChar(s[k])]

\* `sub in s`
Contains(s, sub) ==
    \E a \in 0..(Len(s) - Len(sub)) : SubSeq(s, a + 1, a + Len(sub)) = sub

Acelepryn == <<"a", "c", "e", "l", "e", "p", "r", "y", "n">>
Amistar == <<"a", "m", "i", "s", "t", "a", "r">>
Abofol == <<"a", "b", "o", "f", "o", "l">>
Abofoll == <<"a", "b", "o", "f", "o", "l", "l">>
AceleprynPdf ==
    <<"f", "i", "c", "h", "a", "-", "s", "e", "g", "u", "r", "i", "d", "a",
      "d", "-", "a", "c", "e", "l", "e", "p", "r", "y", "n", ".", "p", "d",
      "f">>
AmistarPdf ==
    <<"A", "M", "I", "S", "T", "A", "R", " ", "X", "T", "R", "A", "_", "h",
      "o", "j", "a", "_", "d", "e", "_", "s", "e", "g", "u", "r", "i", "d",
      "a", "d", " ", "(", "1", ")", ".", "p", "d", "f">>
AbofolPdf ==
    <<"f", "i", "c", "h", "a", "-", "s", "e", "g", "u", "r", "i", "d", "a",
      "d", "-", "a", "b", "o", "f", "o", "l", "-", "l", " ", "(", "1", ")",
      ".", "p", "d", "f">>

\* the keywords of the content filter, in the order they are tried
Keywords ==
    <<<<"q", "u", "e", "m", "a", "d", "u", "r", "a">>,
      <<"p", "r", "i", "m", "e", "r", "o", "s", " ", "a", "u", "x", "i", "l", "i", "o", "s">>,
      <<"i", "n", "c", "e", "n", "d", "i", "o">>,
      <<"c", "o", "n", "t", "a", "c", "t", "o", " ", "c", "o", "n", " ", "l", "a", " ", "p", "i", "e", "l">>,
      <<"o", "j", "o", "s">>,
      <<"o", "c", "u", "l", "a", "r">>>>

\* a filter that is None
NoFilter == << >>
\* {"filename": {"$eq": fn}}
FilenameEq(fn) == <<fn>>
\* {"$contains": kw}
DocContains(kw) == <<kw>>

\* _detect_where_filter(query)
DetectWhereFilter(qs) ==
    LET q == Lower(qs)
    IN IF Contains(q, Acelepryn) THEN FilenameEq(AceleprynPdf)
       ELSE IF Contains(q, Amistar) THEN FilenameEq(AmistarPdf)
       ELSE IF Contains(q, Abofol) THEN FilenameEq(AbofolPdf)
       ELSE NoFilter

\* `where` as search plans it: the detected filter, else the typo rule
PlanWhere(qs) ==
    LET w == DetectWhereFilter(qs)
    IN IF w = NoFilter /\ Contains(Lower(qs), Abofoll)
       THEN FilenameEq(AbofolPdf)
       ELSE w

\* `where_document` as search plans it: the first keyword found in the query
PlanWhereDocument(qs) ==
    LET q == Lower(qs)
        found == {k \in 1..Len(Keywords) : Contains(q, Keywords[k])}
    IN IF found = {} THEN NoFilter ELSE DocContains(Keywords[SetMin(found)])

\* whether an entry of the collection passes the filters of a query
Matches(e, w, wd) ==
    /\ w = NoFilter \/ (e.metadata.filename = w[1])
    /\ wd = NoFilter \/ Contains(e.content, wd[1])

\* coll.query(query_texts=[q], n_results=k, where=w, where_document=wd):
\* the first k entries, in the index's ranking for q, that pass the filters
IndexQuery(rank, k, w, wd) ==
    LET hits == SelectSeq(rank, LAMBDA e : Matches(e, w, wd))
    IN SubSeq(hits, 1, Min(k, Len(hits)))

RunQueryLowered(w, wd) ==
    [query_text |-> Lower(query), n_results |-> top_k, where |-> w,
     where_document |-> wd, docs |-> IndexQuery(ranking, top_k, w, wd)]
\* run_query(_where, _where_doc), as logged: the call made and its documents
RunQuery(w, wd) ==
    [query_text |-> query, n_results |-> top_k, where |-> w,
     where_document |-> wd, docs |-> IndexQuery(ranking, top_k, w, wd)]

NeedsRelaxAlways(dl, wd) == wd # NoFilter
\* `if not docs and where_document is not None`
NeedsRelax(dl, wd) == dl = << >> /\ wd # NoFilter

NeedsFallbackNever(dl) == FALSE
\* `if not docs`
NeedsFallback(dl) == dl = << >>

\* search reads the collection and touches its own locals
SearchFrame ==
    UNCHANGED <<chunkVars, coll, indexVars, llmVars, ingestVars, idVars,
                apiVars, embVars, serverVars>>

\* the filters are planned from the query text
SearchPlan ==
    /\ pc_search = "start"
    /\ where' = PlanWhere(query)
    /\ where_document' = PlanWhereDocument(query)
    /\ pc_search' = "first"
    /\ UNCHANGED <<query, top_k, ranking, issued, result>>
    /\ SearchFrame

\* result = run_query(where, where_document)
SearchFirst ==
    /\ pc_search = "first"
    /\ LET r == RunQuery(where, where_document)
       IN issued' = Append(issued, r) /\ result' = r.docs
    /\ pc_search' = "relax"
    /\ UNCHANGED <<query, top_k, ranking, where, where_document>>
    /\ SearchFrame

\* empty result and a content filter: result = run_query(where, None)
SearchRelax ==
    /\ pc_search = "relax"
    /\ NeedsRelax(result, where_document)
    /\ LET r == RunQuery(where, NoFilter)
       IN issued' = Append(issued, r) /\ result' = r.docs
    /\ pc_search' = "fallback"
    /\ UNCHANGED <<query, top_k, ranking, where, where_document>>
    /\ SearchFrame

SearchRelaxSkip ==
    /\ pc_search = "relax"
    /\ ~NeedsRelax(result, where_document)
    /\ pc_search' = "fallback"
    /\ UNCHANGED <<query, top_k, ranking, where, where_document, issued, result>>
    /\ SearchFrame

\* still empty: result = coll.query(query_texts=[query], n_results=top_k)
SearchFallback ==
    /\ pc_search = "fallback"
    /\ NeedsFallback(result)
    /\ LET r == RunQuery(NoFilter, NoFilter)
       IN issued' = Append(issued, r) /\ result' = r.docs
    /\ pc_search' = "returned"
    /\ UNCHANGED <<query, top_k, ranking, where, where_document>>
    /\ SearchFrame

\* return result
SearchReturn ==
    /\ pc_search = "fallback"
    /\ ~NeedsFallback(result)
    /\ pc_search' = "returned"
    /\ UNCHANGED <<query, top_k, ranking, where, where_document, issued, result>>
    /\ SearchFrame

SearchNext ==
    \/ SearchPlan
    \/ SearchFirst
    \/ SearchRelax
    \/ SearchRelaxSkip
    \/ SearchFallback
    \/ SearchReturn

Entry(content, meta) == [id |-> MakeId(meta), content |-> content, metadata |-> meta]

Ojos == <<"o", "j", "o", "s">>
Incendio == <<"i", "n", "c", "e", "n", "d", "i", "o">>

\* indexed chunks: two of the acelepryn sheet, two of another document; one
\* of each mentions "ojos"
SearchEntries ==
    {Entry(<<"l", "a", "v", "a", "r", " ">> \o Ojos, ChunkMeta(AceleprynPdf, 0)),
     Entry(<<"x">>, ChunkMeta(AceleprynPdf, 1)),
     Entry(Ojos \o <<" ", "y">>, ChunkMeta(FileA, 0)),
     Entry(<<"y">>, ChunkMeta(FileA, 1))}

\* query texts: an optional product name (spelled right, capitalised, or with
\* one letter doubled, replaced or dropped) and an optional topical keyword
QueryProducts ==
    {<< >>, Acelepryn, <<"A", "m", "i", "s", "t", "a", "r">>, Abofoll,
     <<"a", "c", "e", "l", "e", "p", "r", "i", "n">>,
     <<"a", "m", "s", "t", "a", "r">>}
QueryTopics == {<< >>, Ojos, Incendio}
Queries == {<<"q", " ">> \o prod \o <<" ">> \o topic :
               prod \in QueryProducts, topic \in QueryTopics}

\* the orders in which an index can rank the entries of S
Rankings(S) ==
    {r \in [1..Cardinality(S) -> S] : \A a, b \in 1..Cardinality(S) : r[a] = r[b] => a = b}

\* search called with any query and top_k on any small collection, which
\* ranks its entries for the query text in some order
SearchInit ==
    /\ query \in Queries
    /\ top_k \in 1..MaxTopK
    /\ \E S \in SUBSET SearchEntries :
           /\ Cardinality(S) <= MaxIndexDocs
           /\ coll = SetToBag(S)
           /\ ranking \in Rankings(S)
    /\ where = NoFilter /\ where_document = NoFilter
    /\ issued = << >> /\ result = << >> /\ pc_search = "start"
    /\ ChunkIdle /\ IndexIdle /\ LLMIdle
    /\ IngestIdle /\ IdIdle /\ ApiIdle /\ EmbedIdle /\ ServerIdle

SpecSearch == SearchInit /\ [][SearchNext]_vars

(***************************************************************************)
(* Claims about search                                                     *)
(***************************************************************************)

\* the result of the unfiltered index query for the caller's query and top_k
Unfiltered == IndexQuery(ranking, top_k, NoFilter, NoFilter)

\* C2: if the unfiltered index query returns a non-empty result, search
\* returns a non-empty result; when both filters are planned and the filtered
\* queries are empty, search returns exactly the unfiltered result.
C2_FiltersNeverHideResults ==
    pc_search = "returned" =>
        /\ Unfiltered # << >> => result # << >>
        /\ (/\ PlanWhere(query) # NoFilter
            /\ PlanWhereDocument(query) # NoFilter
            /\ IndexQuery(ranking, top_k, PlanWhere(query), PlanWhereDocument(query)) = << >>
            /\ IndexQuery(ranking, top_k, PlanWhere(query), NoFilter) = << >>)
              => result = Unfiltered

\* both filters planned, nothing passes them, and the unfiltered result came back
C2_Witness ==
    /\ pc_search = "returned"
    /\ where # NoFilter /\ where_document # NoFilter
    /\ Len(issued) = 3
    /\ issued[1].docs = << >> /\ issued[2].docs = << >>
    /\ result # << >> /\ result = Unfiltered

\* C3: the first query carries every planned filter; a later query is issued
\* only after an empty result and is less specific (no content filter, and the
\* equality filter alone only as the second query when a content filter was
\* planned); the value returned is the last query's result, which is the
\* first non-empty one, or the unfiltered result when all are empty.
C3_RelaxationOrder ==
    /\ Len(issued) >= 1 =>
           /\ issued[1].where = PlanWhere(query)
           /\ issued[1].where_document = PlanWhereDocument(query)
    /\ \A k \in 2..Len(issued) :
           /\ issued[k - 1].docs = << >>
           /\ issued[k].where_document = NoFilter
           /\ issued[k].where \in {NoFilter, issued[k - 1].where}
           /\ issued[k].where # NoFilter =>
                  (k = 2 /\ PlanWhereDocument(query) # NoFilter)
    /\ pc_search = "returned" =>
           /\ Len(issued) >= 1
           /\ result = issued[Len(issued)].docs
           /\ result = << >> =>
                  /\ issued[Len(issued)].where = NoFilter
                  /\ issued[Len(issued)].where_document = NoFilter

\* a call that stopped at the equality-only query, whose result it returned
C3_Witness ==
    /\ pc_search = "returned"
    /\ Len(issued) = 2
    /\ issued[1].where # NoFilter /\ issued[1].where_document # NoFilter
    /\ issued[2].where # NoFilter /\ issued[2].where_document = NoFilter
    /\ result # << >>

\* C18: every index query of a call carries the caller's query text and
\* top_k unchanged, and what search returns is the documents of the last of
\* these queries as the index gave them: the first top_k entries passing that
\* query's filters, in the index's ranking order.
C18_QueriesPassThrough ==
    /\ \A k \in 1..Len(issued) :
           /\ issued[k].query_text = query
           /\ issued[k].n_results = top_k
    /\ issued # << >> =>
           LET last == issued[Len(issued)]
               pass == SelectSeq(ranking,
                                 LAMBDA e : /\ last.where # << >> =>
                                                e.metadata.filename = last.where[1]
                                            /\ last.where_document # << >> =>
                                                Contains(e.content, last.where_document[1]))
           IN /\ result = last.docs
              /\ result = SubSeq(pass, 1, Min(top_k, Len(pass)))
    /\ pc_search = "returned" => issued # << >>

\* a capitalised query went through all three index queries and returned the
\* unfiltered documents, more of them being in the index than top_k
C18_Witness ==
    /\ pc_search = "returned"
    /\ query # Lower(query)
    /\ Len(issued) = 3
    /\ Len(result) = top_k /\ Len(ranking) > top_k

\* b is a with one character inserted, dropped or replaced
OneEdit(a, b) ==
    LET Drop(x, k) == SubSeq(x, 1, k - 1) \o SubSeq(x, k + 1, Len(x))
    IN \/ Len(b) = Len(a) /\ Cardinality({k \in 1..Len(a) : a[k] # b[k]}) = 1
       \/ Len(b) = Len(a) + 1 /\ \E k \in 1..Len(b) : Drop(b, k) = a
       \/ Len(b) = Len(a) - 1 /\ \E k \in 1..Len(a) : Drop(a, k) = b

\* C19: a query naming a product of the alias table with one character
\* inserted, dropped or replaced gets the same filename filter as the query
\* with the name spelled right.
C19_TypoResolvesToSameFilter ==
    pc_search # "start" =>
        \A name \in {Acelepryn, Amistar, Abofol} :
            \A prod \in QueryProducts, topic \in QueryTopics :
                (OneEdit(name, Lower(prod))
                 /\ query = <<"q", " ">> \o prod \o <<" ">> \o topic)
                    => where = PlanWhere(<<"q", " ">> \o name \o <<" ">> \o topic)

\* C30: a call of search that has returned issued one, two or three index
\* queries, no two of them with the same (where, where_document) combination.
C30_OneToThreeDistinctQueries ==
    /\ Len(issued) <= 3
    /\ pc_search = "returned" =>
           /\ Len(issued) >= 1
           /\ \A a, b \in 1..Len(issued) :
                  (/\ issued[a].where = issued[b].where
                   /\ issued[a].where_document = issued[b].where_document)
                      => a = b

(***************************************************************************)
(* answer_with_llm                                                         *)
(***************************************************************************)
OpenAI == <<"o", "p", "e", "n", "a", "i">>
Ollama == <<"o", "l", "l", "a", "m", "a">>
Groq == <<"g", "r", "o", "q">>
XAI == <<"x", "a", "i">>
Bedrock == <<"b", "e", "d", "r", "o", "c", "k">>

\* provider = (s.llm_provider or ("openai" if OPENAI_API_KEY else "ollama")).lower()
\* the three lines of the instruction header
PromptHeader ==
    <<"Eres un asistente que responde en español de forma concisa y accionable.\n",
      "Usa exclusivamente la información del CONTEXTO. Si algo no está en el contexto, di que no está disponible.\n",
      "Incluye pasos claros y, al final, lista breves referencias a las fuentes.\n\n">>

\* src = f"{filename}#p{page} c{chunk_index}"
SourceTag(m) ==
    MetaStr(m, "filename") \o <<"#", "p">> \o MetaStr(m, "page")
    \o <<" ", "c">> \o MetaStr(m, "chunk_index")

SelectProviderIgnoreKey(lp, okey) ==
    Lower(IF lp # << >> THEN lp ELSE Ollama)
\* provider = (s.llm_provider or ("openai" if OPENAI_API_KEY else "ollama")).lower()
SelectProvider(lp, okey) ==
    Lower(IF lp # << >> THEN lp ELSE IF okey THEN OpenAI ELSE Ollama)

DispatchPreferOpenAI(prov, okey, gkey) ==
    IF okey THEN OpenAI
    ELSE IF prov \in {OpenAI, Ollama, Groq, XAI, Bedrock} THEN prov
    ELSE IF gkey THEN Groq
    ELSE Ollama
\* the provider whose _gen_* function the if-chain calls
Dispatch(prov, okey, gkey) ==
    IF prov = OpenAI THEN OpenAI
    ELSE IF prov = Ollama THEN Ollama
    ELSE IF prov = Groq THEN Groq
    ELSE IF prov = XAI THEN XAI
    ELSE IF prov = Bedrock THEN Bedrock
    ELSE IF okey THEN OpenAI
    ELSE IF gkey THEN Groq
    ELSE Ollama

BuildPromptZeroBased(q, docl, metal) ==
    <<[part |-> "header", text |-> PromptHeader],
      [part |-> "query", text |-> <<"PREGUNTA: ">> \o q \o <<"\n", "\n">>]>>
    \o [k \in 1..Min(Len(docl), Len(metal)) |->
           [part |-> "passage",
            text |-> <<"[Fuente ">> \o NatStr(k - 1) \o <<": ">>
                     \o SourceTag(metal[k]) \o <<"]", "\n">> \o docl[k]]]
    \o <<[part |-> "cue", text |-> <<"RESPUESTA:">>]>>
\* build_prompt(query, docs, metas): the prompt as the sequence of its parts,
\* in the order of the returned string (the "CONTEXTO:" heading and the blank
\* lines between parts are left out of the texts of the passages)
BuildPrompt(q, docl, metal) ==
    <<[part |-> "header", text |-> PromptHeader],
      [part |-> "query", text |-> <<"PREGUNTA: ">> \o q \o <<"\n", "\n">>]>>
    \o [k \in 1..Min(Len(docl), Len(metal)) |->
           [part |-> "passage",
            text |-> <<"[Fuente ">> \o NatStr(k) \o <<": ">>
                     \o SourceTag(metal[k]) \o <<"]", "\n">> \o docl[k]]]
    \o <<[part |-> "cue", text |-> <<"RESPUESTA:">>]>>

\* _gen_bedrock uses json, which generate.py never imports: it raises
\* NameError on every call; the other providers fail or answer
CanReturn(target) == target # Bedrock

\* answer_with_llm touches nothing but its own locals
LLMFrame ==
    UNCHANGED <<chunkVars, coll, indexVars, searchVars, ingestVars, idVars,
                apiVars, embVars, serverVars>>

\* the prompt is built and the provider name is chosen
LLMSelect ==
    /\ pc_llm = "start"
    /\ provider' = SelectProvider(llm_provider, openai_api_key)
    /\ prompt' = BuildPrompt(llm_query, llm_docs, llm_metas)
    /\ pc_llm' = "dispatch"
    /\ UNCHANGED <<llm_provider, env_llm_provider, from_env, openai_api_key,
                   groq_api_key, calls,
                   llm_return, llm_raised, llm_query, llm_docs, llm_metas,
                   llm_exception>>
    /\ LLMFrame

\* the provider's generate function is called and answers:
\* return (text, provider_used)
LLMGenerateReturns ==
    /\ pc_llm = "dispatch"
    /\ LET target == Dispatch(provider, openai_api_key, groq_api_key)
       IN /\ CanReturn(target)
          /\ calls' = Append(calls, target)
          /\ llm_return' = <<<<"t", "e", "x", "t">>, target>>
    /\ pc_llm' = "returned"
    /\ UNCHANGED <<llm_provider, env_llm_provider, from_env, openai_api_key,
                   groq_api_key, provider,
                   llm_raised, llm_query, llm_docs, llm_metas, prompt,
                   llm_exception>>
    /\ LLMFrame

\* what the caller of answer_with_llm catches when a provider call fails: the
\* exception of the provider's client library as it was raised; answer_with_llm
\* wraps nothing around it and adds no provider name to it
ProviderException == [error |-> "provider call failed", provider |-> << >>]

\* the provider's generate function is called and raises: no except clause,
\* the exception leaves answer_with_llm
LLMGenerateRaises ==
    /\ pc_llm = "dispatch"
    /\ LET target == Dispatch(provider, openai_api_key, groq_api_key)
       IN /\ calls' = Append(calls, target)
          /\ llm_raised' = <<target>>
    /\ llm_exception' = ProviderException
    /\ pc_llm' = "raised"
    /\ UNCHANGED <<llm_provider, env_llm_provider, from_env, openai_api_key,
                   groq_api_key, provider,
                   llm_return, llm_query, llm_docs, llm_metas, prompt>>
    /\ LLMFrame

LLMNext == LLMSelect \/ LLMGenerateReturns \/ LLMGenerateRaises

\* values of settings.llm_provider: unset, the known names in some spellings,
\* and names that are not known
ProviderSettings ==
    {<< >>, OpenAI, Ollama, Groq, XAI, Bedrock,
     <<"O", "p", "e", "n", "A", "I">>, <<"G", "R", "O", "Q">>,
     <<"X", "a", "i">>, <<"l", "o", "c", "a", "l">>,
     <<"o", "p", "e", "n", "a", "i", " ">>}

MaxCtx == 2          \* passages handed to answer_with_llm

\* questions, passage texts and passage metadata handed to answer_with_llm
PromptQueries == {<< >>, <<"q", "?">>}
PromptDocs == {<<"x">>, <<"y", "\n", "z">>}
PromptMetas ==
    {ChunkMeta(FileA, 0), ChunkMeta(FileB, 11), [filename |-> FileA, page |-> 2]}

\* llm_provider of Settings.from_env() when the environment variable
\* LLM_PROVIDER holds env: from_env passes only the four paths to cls(...),
\* so the field keeps its class default "xai"
FromEnvLLMProvider(env) == XAI

\* answer_with_llm called with the settings given by its caller (any
\* configured provider) or loaded by Settings.from_env under some value of
\* LLM_PROVIDER, in any credential environment
LLMInit ==
    /\ \/ /\ from_env = FALSE
          /\ env_llm_provider = << >>
          /\ llm_provider \in ProviderSettings
       \/ /\ from_env = TRUE
          /\ env_llm_provider \in {<< >>, OpenAI, Ollama, Groq}
          /\ llm_provider = FromEnvLLMProvider(env_llm_provider)
    /\ openai_api_key \in BOOLEAN
    /\ groq_api_key \in BOOLEAN
    /\ provider = << >> /\ calls = << >>
    /\ llm_return = << >> /\ llm_raised = << >>
    /\ llm_query \in PromptQueries
    /\ llm_docs \in UNION {[1..n -> PromptDocs] : n \in 0..MaxCtx}
    /\ llm_metas \in UNION {[1..n -> PromptMetas] : n \in 0..MaxCtx}
    /\ prompt = << >> /\ llm_exception = << >>
    /\ pc_llm = "start"
    /\ coll = EmptyBag
    /\ ChunkIdle /\ IndexIdle /\ SearchIdle
    /\ IngestIdle /\ IdIdle /\ ApiIdle /\ EmbedIdle /\ ServerIdle

SpecLLM == LLMInit /\ [][LLMNext]_vars

(***************************************************************************)
(* Claims about answer_with_llm                                            *)
(***************************************************************************)

\* C4: one invocation calls at most one provider's generate function, once;
\* a configured known name (in any letter case) is the provider called, an
\* unset name gives the one chosen by availability; when the call fails no
\* other provider is called and nothing is returned.
C4_OnlySelectedProviderCalled ==
    /\ Len(calls) <= 1
    /\ pc_llm \in {"returned", "raised"} => Len(calls) = 1
    /\ Len(calls) = 1 =>
           /\ Lower(llm_provider) \in {OpenAI, Ollama, Groq, XAI, Bedrock}
                  => calls[1] = Lower(llm_provider)
           /\ llm_provider = << >>
                  => calls[1] = (IF openai_api_key THEN OpenAI ELSE Ollama)
    /\ pc_llm = "raised" => llm_return = << >> /\ llm_raised = <<calls[1]>>
    /\ pc_llm = "returned" => llm_raised = << >> /\ llm_return[2] = calls[1]

\* the configured provider, spelled in capitals, failed while the credentials
\* of two other providers were present, and it alone was called
C4_Witness ==
    /\ pc_llm = "raised"
    /\ llm_provider = <<"X", "a", "i">>
    /\ openai_api_key /\ groq_api_key
    /\ calls = <<XAI>>

\* C16: with no provider configured the provider called is the first
\* available in the fixed order openai (when OPENAI_API_KEY is present), then
\* ollama; it depends on the credential environment alone, and the provider
\* name returned is the provider that was called.
C16_UnsetProviderFixedPriority ==
    (llm_provider = << >> /\ pc_llm \in {"returned", "raised"}) =>
        /\ calls = <<IF openai_api_key THEN OpenAI ELSE Ollama>>
        /\ pc_llm = "returned" => llm_return[2] = calls[1]

\* no provider configured, the credentials of openai and groq both present:
\* openai was called and is the provider returned
C16_Witness ==
    /\ llm_provider = << >> /\ openai_api_key /\ groq_api_key
    /\ pc_llm = "returned"
    /\ calls = <<OpenAI>> /\ llm_return[2] = OpenAI

\* C17: a provider call that fails reaches the caller as a failure that
\* carries the identity of the failing provider, and no (answer, provider)
\* pair is returned.
C17_FailureCarriesProvider ==
    pc_llm = "raised" =>
        /\ llm_return = << >>
        /\ llm_exception # << >>
        /\ llm_exception.provider = <<calls[1]>>

\* C29: a configured name that is not empty and, lower-cased, is none of
\* openai, ollama, groq, xai, bedrock raises no error of its own: one provider
\* is called, openai when OPENAI_API_KEY is present and ollama otherwise, and a
\* call that returns names the provider called.
C29_UnknownProviderFallsBack ==
    (/\ llm_provider # << >>
     /\ Lower(llm_provider) \notin {OpenAI, Ollama, Groq, XAI, Bedrock}
     /\ pc_llm \in {"returned", "raised"}) =>
        /\ calls = <<IF openai_api_key THEN OpenAI ELSE Ollama>>
        /\ pc_llm = "returned" => llm_return[2] = calls[1]

\* the passages are labelled 1, 2, ... with their citation tags, in order
PassagesLabelled(ps) ==
    /\ Len(ps) = Min(Len(llm_docs), Len(llm_metas))
    /\ \A k \in 1..Len(ps) :
           /\ ps[k].part = "passage"
           /\ ps[k].text = <<"[Fuente ">> \o NatStr(k) \o <<": ">>
                           \o MetaStr(llm_metas[k], "filename") \o <<"#", "p">>
                           \o MetaStr(llm_metas[k], "page") \o <<" ", "c">>
                           \o MetaStr(llm_metas[k], "chunk_index")
                           \o <<"]", "\n">> \o llm_docs[k]

\* C20 as stated: the prompt is the header, then the labelled passages, then
\* the literal query, then the answer cue.
C20_PromptHeaderPassagesQueryCue ==
    pc_llm # "start" =>
        LET n == Len(prompt)
        IN /\ n >= 3
           /\ prompt[1].part = "header"
           /\ PassagesLabelled(SubSeq(prompt, 2, n - 2))
           /\ prompt[n - 1].part = "query"
           /\ prompt[n].part = "cue"

\* C20, amended: the prompt is the header, then the literal query, then the
\* passages (each labelled with its 1-based source index and the tag
\* filename#p<page> c<chunk_index>, in the order given), then the answer cue.
C20_PromptHeaderQueryPassagesCue ==
    pc_llm # "start" =>
        LET n == Len(prompt)
        IN /\ n >= 3
           /\ prompt[1] = [part |-> "header", text |-> PromptHeader]
           /\ prompt[2].part = "query"
           /\ prompt[2].text = <<"PREGUNTA: ">> \o llm_query \o <<"\n", "\n">>
           /\ PassagesLabelled(SubSeq(prompt, 3, n - 1))
           /\ prompt[n] = [part |-> "cue", text |-> <<"RESPUESTA:">>]

\* a prompt was built for a question and two passages
C20_Witness ==
    /\ pc_llm = "dispatch"
    /\ llm_query = <<"q", "?">>
    /\ Len(llm_docs) = 2 /\ Len(llm_metas) = 2
    /\ Len(prompt) = 5
    /\ prompt[4].part = "passage"

\* C23: with settings loaded by Settings.from_env, a known provider name in
\* the environment variable LLM_PROVIDER is the provider answer_with_llm calls.
C23_EnvSelectsProvider ==
    (from_env /\ calls # << >>
     /\ Lower(env_llm_provider) \in {OpenAI, Ollama, Groq, XAI, Bedrock})
        => calls[1] = Lower(env_llm_provider)

(***************************************************************************)
(* POST /query                                                             *)
(***************************************************************************)
SettingsTopK == 6
PreviewChars == 300

\* d[:300].replace("\n", " ") + ("..." if len(d) > 300 else "")
Preview(d) ==
    [k \in 1..Min(Len(d), PreviewChars) |-> IF d[k] = "\n" THEN " " ELSE d[k]]
    \o (IF Len(d) > PreviewChars THEN <<".", ".", ".">> ELSE << >>)

MaxCtxOfAll(r, dl) == Len(dl)
\* max_ctx = max(1, min(req.max_context, len(docs)))
MaxCtxOf(r, dl) == Max(1, Min(r.max_context, Len(dl)))

\* the SourceItem list built from list(zip(docs, metas))[:max_ctx]
SourceItems(dl, n) ==
    [k \in 1..Min(n, Len(dl)) |->
        LET m == dl[k].metadata
        IN [filename |-> MetaStr(m, "filename"),
            page |-> IF "page" \in DOMAIN m THEN m.page ELSE 0,
            chunk_index |-> IF "chunk_index" \in DOMAIN m THEN m.chunk_index ELSE 0,
            preview |-> Preview(dl[k].content)]]

\* QueryResponse(answer, provider, sources); None is the empty sequence
QueryResponse(a, pr, src) ==
    [status |-> 200, answer |-> a, provider |-> pr, sources |-> src]

SkipsGenerationNever(r) == FALSE
\* `if req.only_retrieve`
SkipsGeneration(r) == r.only_retrieve

\* the handler touches its own locals; search and answer_with_llm run inside
ServerFrame == UNCHANGED <<chunkVars, coll, indexVars, ingestVars, idVars,
                apiVars, embVars>>

\* the index directory is missing: HTTPException(status_code=500)
QueryNoIndex ==
    /\ pc_query = "start"
    /\ ~index_dir_exists
    /\ response' = [status |-> 500]
    /\ pc_query' = "responded"
    /\ UNCHANGED <<req, index_dir_exists, searchVars, llmVars>>
    /\ ServerFrame

\* top_k = req.top_k or s.top_k; rag_search(persist_dir, req.question, top_k)
QueryCallSearch ==
    /\ pc_query = "start"
    /\ index_dir_exists
    /\ query' = req.question
    /\ top_k' = IF req.top_k = << >> \/ req.top_k = <<0>>
                THEN SettingsTopK ELSE req.top_k[1]
    /\ pc_search' = "start"
    /\ pc_query' = "searching"
    /\ UNCHANGED <<req, index_dir_exists, response, ranking, where,
                   where_document, issued, result, llmVars>>
    /\ ServerFrame

\* rag_search runs
QuerySearching ==
    /\ pc_query = "searching"
    /\ SearchNext

\* `if not docs`: the empty response
QueryNoDocs ==
    /\ pc_query = "searching" /\ pc_search = "returned"
    /\ result = << >>
    /\ response' = QueryResponse(<< >>, << >>, << >>)
    /\ pc_query' = "responded"
    /\ UNCHANGED <<req, index_dir_exists, searchVars, llmVars>>
    /\ ServerFrame

\* `if req.only_retrieve`: the sources alone
QueryOnlyRetrieve ==
    /\ pc_query = "searching" /\ pc_search = "returned"
    /\ result # << >>
    /\ SkipsGeneration(req)
    /\ response' = QueryResponse(<< >>, << >>,
                                 SourceItems(result, MaxCtxOf(req, result)))
    /\ pc_query' = "responded"
    /\ UNCHANGED <<req, index_dir_exists, searchVars, llmVars>>
    /\ ServerFrame

\* answer_with_llm(req.question, docs[:max_ctx], metas[:max_ctx], settings=s)
QueryCallLLM ==
    /\ pc_query = "searching" /\ pc_search = "returned"
    /\ result # << >>
    /\ ~SkipsGeneration(req)
    /\ LET ctx == SubSeq(result, 1, Min(MaxCtxOf(req, result), Len(result)))
       IN /\ llm_docs' = [k \in 1..Len(ctx) |-> ctx[k].content]
          /\ llm_metas' = [k \in 1..Len(ctx) |-> ctx[k].metadata]
    /\ llm_query' = req.question
    /\ pc_llm' = "start"
    /\ pc_query' = "generating"
    /\ UNCHANGED <<req, index_dir_exists, response, searchVars, llm_provider,
                   env_llm_provider, from_env, openai_api_key, groq_api_key, provider, calls, llm_return,
                   llm_raised, prompt, llm_exception>>
    /\ ServerFrame

\* answer_with_llm runs
QueryGenerating ==
    /\ pc_query = "generating"
    /\ LLMNext

\* return QueryResponse(answer=answer, provider=provider, sources=sources)
QueryAnswer ==
    /\ pc_query = "generating" /\ pc_llm = "returned"
    /\ response' = QueryResponse(<<llm_return[1]>>, <<llm_return[2]>>,
                                 SourceItems(result, MaxCtxOf(req, result)))
    /\ pc_query' = "responded"
    /\ UNCHANGED <<req, index_dir_exists, searchVars, llmVars>>
    /\ ServerFrame

\* the provider's exception leaves the handler: the framework answers 500
QueryLLMFailed ==
    /\ pc_query = "generating" /\ pc_llm = "raised"
    /\ response' = [status |-> 500]
    /\ pc_query' = "responded"
    /\ UNCHANGED <<req, index_dir_exists, searchVars, llmVars>>
    /\ ServerFrame

QueryNext ==
    \/ QueryNoIndex
    \/ QueryCallSearch
    \/ QuerySearching
    \/ QueryNoDocs
    \/ QueryOnlyRetrieve
    \/ QueryCallLLM
    \/ QueryGenerating
    \/ QueryAnswer
    \/ QueryLLMFailed

\* request bodies: a question, top_k absent, 0 or given, both values of
\* only_retrieve, max_context from 0 up
Requests ==
    [question : {<<"q", " ", " ">>,
                 <<"q", " ">> \o Acelepryn \o <<" ">> \o Ojos,
                 <<"q", " ">> \o Amistar \o <<" ">>},
     top_k : {<< >>, <<0>>} \cup {<<k>> : k \in 1..MaxTopK},
     only_retrieve : BOOLEAN,
     max_context : 0..MaxCtx]

\* one request to a server whose index holds any small collection; the
\* settings are those of Settings.from_env (llm_provider "xai")
QueryInit ==
    /\ req \in Requests
    /\ index_dir_exists \in BOOLEAN
    /\ response = << >> /\ pc_query = "start"
    /\ \E S \in SUBSET SearchEntries :
           /\ Cardinality(S) <= MaxIndexDocs
           /\ coll = SetToBag(S)
           /\ ranking \in Rankings(S)
    /\ query = << >> /\ top_k = 1
    /\ where = NoFilter /\ where_document = NoFilter
    /\ issued = << >> /\ result = << >> /\ pc_search = "idle"
    /\ env_llm_provider = << >> /\ from_env = TRUE
    /\ llm_provider = FromEnvLLMProvider(env_llm_provider)
    /\ openai_api_key \in BOOLEAN /\ groq_api_key = FALSE
    /\ provider = << >> /\ calls = << >>
    /\ llm_return = << >> /\ llm_raised = << >>
    /\ llm_query = << >> /\ llm_docs = << >> /\ llm_metas = << >>
    /\ prompt = << >> /\ llm_exception = << >>
    /\ pc_llm = "idle"
    /\ ChunkIdle /\ IndexIdle /\ IngestIdle /\ IdIdle /\ ApiIdle /\ EmbedIdle

SpecQuery == QueryInit /\ [][QueryNext]_vars

\* C15: the /query handler calls a generation provider only when retrieval
\* returned a passage and only_retrieve is false; on an empty retrieval it
\* answers with no answer, no provider and no sources, and with only_retrieve
\* it answers with the sources, no answer and no provider, in both cases
\* without a provider call.
C15_ProviderOnlyWithContext ==
    /\ calls # << >> =>
           /\ pc_search = "returned" /\ result # << >>
           /\ ~req.only_retrieve
    /\ (pc_query = "responded" /\ pc_search = "returned" /\ result = << >>) =>
           /\ response = [status |-> 200, answer |-> << >>, provider |-> << >>,
                          sources |-> << >>]
           /\ calls = << >> /\ pc_llm = "idle"
    /\ (pc_query = "responded" /\ pc_search = "returned" /\ result # << >>
        /\ req.only_retrieve) =>
           /\ response.status = 200
           /\ response.answer = << >> /\ response.provider = << >>
           /\ Len(response.sources) >= 1
           /\ \A k \in 1..Len(response.sources) :
                  response.sources[k].filename = result[k].metadata.filename
           /\ calls = << >> /\ pc_llm = "idle"

\* a request with only_retrieve was answered with two sources
C15_Witness ==
    /\ pc_query = "responded"
    /\ req.only_retrieve
    /\ Len(result) = 2
    /\ Len(response.sources) = 2
    /\ calls = << >>

\* the first k retrieved passages are the ones given to answer_with_llm,
\* labelled 1..k in the prompt, and the ones cited as sources, in order
UsesFirst(k) ==
    /\ pc_llm # "idle" =>
           /\ Len(llm_docs) = k /\ Len(llm_metas) = k
           /\ \A j \in 1..k : /\ llm_docs[j] = result[j].content
                              /\ llm_metas[j] = result[j].metadata
    /\ pc_llm \in {"dispatch", "returned", "raised"} =>
           /\ Len(prompt) = k + 3
           /\ PassagesLabelled(SubSeq(prompt, 3, k + 2))
    /\ (pc_query = "responded" /\ response.status = 200) =>
           /\ Len(response.sources) = k
           /\ \A j \in 1..k :
                  /\ response.sources[j].filename = result[j].metadata.filename
                  /\ response.sources[j].page = result[j].metadata.page
                  /\ response.sources[j].chunk_index = result[j].metadata.chunk_index

\* C25 as stated: the passages used are the first k retrieved ones with
\* k = min(max_context, number retrieved), never more than max_context.
C25_ContextIsMinOfMaxContext ==
    (pc_search = "returned" /\ result # << >>
     /\ pc_query \in {"generating", "responded"}) =>
        LET k == Min(req.max_context, Len(result))
        IN k <= req.max_context /\ UsesFirst(k)

\* C25, amended: the passages used are the first k retrieved ones with
\* k = max(1, min(max_context, number retrieved)): at most max_context of
\* them when max_context >= 1, and one when max_context <= 0.
C25_ContextIsClampedMaxContext ==
    (pc_search = "returned" /\ result # << >>
     /\ pc_query \in {"generating", "responded"}) =>
        LET k == Max(1, Min(req.max_context, Len(result)))
        IN /\ req.max_context >= 1 => k <= req.max_context
           /\ UsesFirst(k)

\* two passages were retrieved, max_context was 1, and the answer came back
\* with one source
C25_Witness ==
    /\ pc_query = "responded" /\ response.status = 200
    /\ response.answer # << >>
    /\ req.max_context = 1 /\ Len(result) = 2
    /\ Len(response.sources) = 1 /\ Len(prompt) = 4

(***************************************************************************)
(* syngenta_rag POST /query: request handlers on the module-level engine   *)
(***************************************************************************)
SimilarityTopK == 5
ApiDefaultTopK == 3

ApiFrame ==
    UNCHANGED <<chunkVars, coll, indexVars, searchVars, llmVars, ingestVars,
                idVars, serverVars, embVars>>

\* `if query_engine is None`: 503
ApiNotReady(h) ==
    /\ pc_api[h] = "start"
    /\ engine_top_k = << >>
    /\ pc_api' = [pc_api EXCEPT ![h] = "done"]
    /\ UNCHANGED <<engine_top_k, api_req, api_used>>
    /\ ApiFrame

\* `if request.top_k: query_engine.update_config(similarity_top_k=...)`:
\* the one engine of the process takes the request's top_k
ApiUpdateConfig(h) ==
    /\ pc_api[h] = "start"
    /\ engine_top_k # << >>
    /\ engine_top_k' = IF api_req[h].top_k \in {<< >>, <<0>>}
                       THEN engine_top_k ELSE api_req[h].top_k
    /\ pc_api' = [pc_api EXCEPT ![h] = "query"]
    /\ UNCHANGED <<api_req, api_used>>
    /\ ApiFrame

\* query_engine.query_with_sources(request.question): retrieval with the
\* top_k the engine holds when the call is made
ApiQuery(h) ==
    /\ pc_api[h] = "query"
    /\ api_used' = [api_used EXCEPT ![h] = engine_top_k]
    /\ pc_api' = [pc_api EXCEPT ![h] = "done"]
    /\ UNCHANGED <<engine_top_k, api_req>>
    /\ ApiFrame

ApiNext == \E h \in Procs : ApiNotReady(h) \/ ApiUpdateConfig(h) \/ ApiQuery(h)

\* two requests, each run by a worker thread, their steps interleaved in any
\* way (one after the other included); top_k is absent from the body (the
\* model default), null, 0 or a number
ApiInit ==
    /\ engine_top_k \in {<< >>, <<SimilarityTopK>>}
    /\ api_req \in [Procs -> [top_k : {<< >>, <<0>>, <<ApiDefaultTopK>>}
                                      \cup {<<k>> : k \in 1..MaxTopK}]]
    /\ api_used = [h \in Procs |-> << >>]
    /\ pc_api = [h \in Procs |-> "start"]
    /\ coll = EmptyBag
    /\ ChunkIdle /\ IndexIdle /\ SearchIdle /\ LLMIdle /\ IngestIdle
    /\ IdIdle /\ ServerIdle /\ EmbedIdle

SpecApi == ApiInit /\ [][ApiNext]_vars

\* C21: the top_k a request is retrieved with is the request's own top_k, or
\* the configured default when it gives none, whatever the other request
\* does and whether it runs at the same time or ran before.
C21_RequestsIndependent ==
    \A h \in Procs :
        (pc_api[h] = "done" /\ api_used[h] # << >>) =>
            api_used[h] = IF api_req[h].top_k \in {<< >>, <<0>>}
                          THEN <<SimilarityTopK>> ELSE api_req[h].top_k

(***************************************************************************)
(* syngenta_rag/core/a_embeddings.py: LocalEmbedding and LlamaEmbedding.   *)
(* The same text is embedded by two calls, each in a process of its own.   *)
(* A float is modelled by an integer: a component of LocalEmbedding by its *)
(* numerator over HashModulus, a component of the model or of the random   *)
(* fallback by an integer standing for its value.                          *)
(***************************************************************************)
MaxDims == 2         \* largest `dimensions` tried
HashModulus == 10000

Calls == {1, 2}
\* values PYTHONHASHSEED takes in the processes observed (Python draws it at
\* random at start-up unless the variable is set)
HashSeeds == {0, 1}
\* values standing for the samples random.gauss(0, 0.1) may return
GaussValues == {-1, 0, 1}

EmbAlphabet == <<" ", "\n", "a", "b", "A", "0", "1", "2", "3">>
Code(c) == CHOOSE k \in 1..Len(EmbAlphabet) : EmbAlphabet[k] = c

RECURSIVE HashFrom(_, _)
HashFrom(h, s) ==
    IF s = << >> THEN h
    ELSE HashFrom((h * 31 + Code(Head(s))) % 65536, Tail(s))

\* hash(s) of a str in a process whose hash seed is seed: CPython keys its
\* string hash with the seed, so the value is a function of (seed, s) and not
\* of s alone; a keyed polynomial hash stands for the keyed SipHash
PyHash(seed, s) == HashFrom((seed * 7919 + 17) % 65536, s)

RECURSIVE Split(_)
\* s.split(): the maximal runs of non-whitespace characters
Split(s) ==
    IF s = << >> THEN << >>
    ELSE IF Head(s) \in Whitespace THEN Split(Tail(s))
    ELSE LET stops == {k \in 1..Len(s) : s[k] \in Whitespace}
             e == IF stops = {} THEN Len(s) ELSE SetMin(stops) - 1
         IN <<SubSeq(s, 1, e)>> \o Split(SubSeq(s, e + 1, Len(s)))

RECURSIVE SumHash(_, _, _)
\* sum(hash(word + str(i)) for word in words)
SumHash(seed, words, d) ==
    IF words = << >> THEN 0
    ELSE PyHash(seed, Head(words) \o NatStr(d)) + SumHash(seed, Tail(words), d)

\* LocalEmbedding._get_query_embedding(query), component k being
\* (hash_val % 10000) / 10000.0 for i = k - 1
LocalEmbed(seed, q, dims) ==
    LET words == Split(Lower(q))
    IN [k \in 1..dims |-> SumHash(seed, words, k - 1) % HashModulus]

\* self._model.embed(text): the model is a fixed function of the text, here
\* one component per character
ModelEmbed(t) == [k \in 1..Len(t) |-> Code(t[k])]

\* "Ajustar dimension": truncate, or pad with 0.0
AdjustDims(e, dims) ==
    IF Len(e) > dims THEN SubSeq(e, 1, dims)
    ELSE e \o [k \in 1..(dims - Len(e)) |-> 0]

EmbedFrame ==
    UNCHANGED <<chunkVars, coll, indexVars, searchVars, llmVars, ingestVars,
                idVars, serverVars, apiVars>>

\* LocalEmbedding.get_text_embedding / get_query_embedding
EmbedLocal(c) ==
    /\ emb_kind = "local" /\ pc_emb[c] = "ready"
    /\ emb_out' = [emb_out EXCEPT
                       ![c] = <<LocalEmbed(emb_seed[c], emb_text, emb_dims)>>]
    /\ pc_emb' = [pc_emb EXCEPT ![c] = "done"]
    /\ UNCHANGED <<emb_kind, emb_text, emb_dims, emb_seed>>
    /\ EmbedFrame

\* LlamaEmbedding._get_embedding, the model answering
EmbedLlama(c) ==
    /\ emb_kind = "llama" /\ pc_emb[c] = "ready"
    /\ emb_out' = [emb_out EXCEPT
                       ![c] = <<AdjustDims(ModelEmbed(emb_text), emb_dims)>>]
    /\ pc_emb' = [pc_emb EXCEPT ![c] = "done"]
    /\ UNCHANGED <<emb_kind, emb_text, emb_dims, emb_seed>>
    /\ EmbedFrame

\* LlamaEmbedding._get_embedding, the model raising: `except Exception`
\* returns [random.gauss(0, 0.1) for _ in range(self._dimensions)]
EmbedLlamaFails(c) ==
    /\ emb_kind = "llama" /\ pc_emb[c] = "ready"
    /\ \E v \in [1..emb_dims -> GaussValues] :
           emb_out' = [emb_out EXCEPT ![c] = <<v>>]
    /\ pc_emb' = [pc_emb EXCEPT ![c] = "done"]
    /\ UNCHANGED <<emb_kind, emb_text, emb_dims, emb_seed>>
    /\ EmbedFrame

EmbedNext ==
    \E c \in Calls : EmbedLocal(c) \/ EmbedLlama(c) \/ EmbedLlamaFails(c)

EmbTexts ==
    {<< >>, <<" ">>, <<"a">>, <<"A", " ", "b">>, <<"a", "\n", "b", "a">>}

EmbedInit ==
    /\ emb_kind \in {"local", "llama"}
    /\ emb_text \in EmbTexts
    /\ emb_dims \in 1..MaxDims
    /\ emb_seed \in [Calls -> HashSeeds]
    /\ emb_kind = "llama" => emb_seed = <<0, 0>>
    /\ emb_out = [c \in Calls |-> << >>]
    /\ pc_emb = [c \in Calls |-> "ready"]
    /\ ChunkIdle /\ coll = EmptyBag /\ IndexIdle /\ SearchIdle /\ LLMIdle
    /\ IngestIdle /\ IdIdle /\ ServerIdle /\ ApiIdle

SpecEmbed == EmbedInit /\ [][EmbedNext]_vars

\* C28: two calls that embed the same text with the same dimensions return
\* the same vector, whichever processes run them and whether or not the
\* model raised.
C28_EmbeddingDeterministic ==
    (pc_emb[1] = "done" /\ pc_emb[2] = "done") => emb_out[1] = emb_out[2]

(***************************************************************************)
(* The pipeline: each behaviour runs one component on its inputs           *)
(***************************************************************************)
Init ==
    \/ ChunkInit \/ IndexInit \/ SearchInit \/ LLMInit
    \/ IngestInit \/ IdInit \/ QueryInit \/ ApiInit \/ EmbedInit

\* chunk_text runs on its own only when no chunk_ingest_jsonl call drives it
Next ==
    \/ (pc_ingest = "idle" /\ ChunkNext) \/ IndexNext \/ SearchNext \/ LLMNext
    \/ IngestNext \/ IdNext \/ QueryNext \/ ApiNext \/ EmbedNext

Spec == Init /\ [][Next]_vars

(***************************************************************************)
(* Claims about chunk_text                                                 *)
(***************************************************************************)

\* C1: with valid parameters the scan cursor strictly advances on every loop
\* iteration that is followed by another one (so the loop terminates).
C1_CursorStrictlyAdvances ==
    [][(pc_chunk \in {"loop", "yielded"} /\ pc_chunk' = "loop") => i' > i]_vars

\* the spans emitted so far cover position p of the text
Covered(p) == \E k \in 1..Len(emitted) : emitted[k].start <= p /\ p < emitted[k].end

\* C7 (as stated): when chunk_text has finished, the emitted spans start at 0,
\* end at len(text), and each next span starts no later than the previous
\* span's end and at most overlap_chars before it.
C7_SpansCoverWithoutGaps ==
    pc_chunk = "done" =>
        IF emitted = << >>
        THEN text = << >>
        ELSE /\ emitted[1].start = 0
             /\ emitted[Len(emitted)].end = Len(text)
             /\ \A k \in 1..(Len(emitted) - 1) :
                    /\ emitted[k + 1].start <= emitted[k].end
                    /\ emitted[k + 1].start >= emitted[k].end - overlap_chars

\* C7 (amended): each next span starts at most overlap_chars before the
\* previous span's end, and every character of the text scanned so far (all
\* of the text once chunk_text has finished) that lies outside every emitted
\* span is whitespace of a dropped window.
C7_SpansCoverNonWhitespace ==
    /\ \A k \in 1..(Len(emitted) - 1) :
           emitted[k + 1].start >= emitted[k].end - overlap_chars
    /\ pc_chunk \in {"loop", "yielded", "done"} =>
           LET scanned == IF pc_chunk = "done" THEN Len(text)
                          ELSE IF pc_chunk = "yielded"
                               THEN emitted[Len(emitted)].end
                               ELSE i
           IN \A p \in 0..(scanned - 1) :
                  text[p + 1] \notin Whitespace => Covered(p)

\* a finished run in which a dropped whitespace window left a gap between spans
C7_Witness ==
    /\ pc_chunk = "done"
    /\ \E k \in 1..(Len(emitted) - 1) : emitted[k + 1].start > emitted[k].end

\* C8: the start offsets of successively emitted chunks are non-decreasing.
C8_StartsNonDecreasing ==
    \A k \in 1..(Len(emitted) - 1) : emitted[k].start <= emitted[k + 1].start

\* a finished run with overlap that emitted chunks at increasing starts
C8_Witness ==
    /\ pc_chunk = "done" /\ overlap_chars > 0
    /\ Len(emitted) >= 3
    /\ emitted[1].start < emitted[2].start
    /\ emitted[2].start < emitted[3].start

\* C9: every emitted chunk has 0 <= start < end <= len(text), spans at most
\* chunk_chars characters, and its content is the non-empty text[start:end]
\* without its leading and trailing whitespace.
C9_EmittedChunksWellFormed ==
    \A k \in 1..Len(emitted) :
        LET e == emitted[k]
        IN /\ 0 <= e.start /\ e.start < e.end /\ e.end <= Len(text)
           /\ e.end - e.start <= chunk_chars
           /\ e.chunk # << >>
           /\ e.chunk[1] \notin Whitespace
           /\ e.chunk[Len(e.chunk)] \notin Whitespace
           /\ \E a \in e.start..e.end :
                  /\ e.chunk = Slice(text, a, a + Len(e.chunk))
                  /\ \A p \in e.start..(e.end - 1) :
                         (p < a \/ p >= a + Len(e.chunk)) => text[p + 1] \in Whitespace

\* a chunk was emitted whose content is shorter than its span (it was trimmed)
C9_Witness ==
    \E k \in 1..Len(emitted) :
        Len(emitted[k].chunk) < emitted[k].end - emitted[k].start

\* C10: with chunk_chars <= 0, overlap_chars < 0 or overlap_chars >= chunk_chars
\* the run fails with the error and emits no chunk, whatever the text.
C10_InvalidParamsRaise ==
    (pc_chunk # "start" /\
     (chunk_chars <= 0 \/ overlap_chars < 0 \/ overlap_chars >= chunk_chars))
        => (pc_chunk = "error" /\ emitted = << >>)

\* the error raised for the empty text with overlap_chars = chunk_chars
C10_Witness ==
    /\ pc_chunk = "error" /\ text = << >>
    /\ chunk_chars > 0 /\ overlap_chars = chunk_chars

\* the end of the chunk as C24 states it: the window's last whitespace
\* character if it is among the window's last 300 characters, else the hard
\* boundary; the end of the text when the window reaches it
StatedEnd(t, cur, cc) ==
    LET n == Len(t)
        hard == Min(cur + cc, n)
        ws == {k \in 0..(hard - cur - 1) :
                  t[cur + k + 1] \in Whitespace /\ k >= cc - EarlyCutWindow}
    IN IF hard < n /\ ws # {} THEN cur + SetMax(ws) ELSE hard

\* C24: every chunk chunk_text yields ends where the boundary rule says: at
\* the nearest whitespace character backward from the window's right edge if
\* that character is within the last 300 characters of the window, else at
\* the hard boundary, and at the end of the text (no search) when the window
\* reaches it.
C24_BoundaryAtNearestWhitespace ==
    [][(pc_chunk = "loop" /\ Len(emitted') = Len(emitted) + 1) =>
           LET e == emitted'[Len(emitted')]
           IN /\ e.start = i
              /\ e.end = StatedEnd(text, i, chunk_chars)
              /\ e.chunk = Strip(Slice(text, i, e.end))]_vars

====
